---- MODULE Spec2Model ----
(***************************************************************************)
(* ConfidentialFundraiser (contracts/ConfidentialFundraiser.sol): a single *)
(* campaign with a public running total and an encrypted shadow ledger.    *)
(*                                                                         *)
(* Every external function of the contract is a transaction: it maps the   *)
(* contract state to a new state, or reverts and leaves the state as it    *)
(* was.  Each function is therefore written as an operator from a state    *)
(* record and the call's inputs to a record [state, error], and the action *)
(* of the same name commits that record.                                   *)
(*                                                                         *)
(* Encrypted values (euint128) are handles.  A handle is modelled by the   *)
(* operation that produced it (the FHE executor derives the handle of a    *)
(* result from the operator and the operand handles, so equal operations   *)
(* on equal operands give the same handle) together with its plaintext.    *)
(* TLC's integers are 32 bits wide, so the 128-bit width and the divisor   *)
(* 10^12 are scaled down; the arithmetic keeps its shape (wrap-around      *)
(* addition, truncating division by a divisor that does not divide the     *)
(* modulus).                                                               *)
(***************************************************************************)
EXTENDS Integers, Sequences, FiniteSets, TLC

\* ---------------------------------------------------------------- bounds
\* block.timestamp ranges over 1..MaxTime
MaxTime == 2
\* at most this many contributions are accepted in a run
MaxContributions == 2
\* bit width at which euint128 is modelled
EuintWidth == 3

\* ------------------------------------------------------ program constants
\* POINTS_DIVISOR (10^12 in the contract), scaled
POINTS_DIVISOR == 3

Modulus == 2 ^ EuintWidth

\* ------------------------------------------------------------ identities
NullAddr == "0x0"
Addr == {"deployer", "alice", "bob"}
\* address(this): the contract as a principal of the ACL
This == "this"

\* ---------------------------------------------------------- input ranges
Names == {"", "Rocket Launch"}
\* the positive target equals one attached value, so that a contribution
\* reaches it and later ones arrive with the target met
Targets == {0, POINTS_DIVISOR - 1}
EndTimestamps == 1 .. (MaxTime + 1)
Amounts == {POINTS_DIVISOR - 1, Modulus - 1}
Values == {0, POINTS_DIVISOR - 1}
\* externally encrypted inputs: a ciphertext with the proof that binds it to
\* the user it was encrypted for (and to this contract)
Ciphertexts == [owner : Addr, pt : Amounts]

\* the calls the actions make: a configuration whose end timestamp is not in
\* the future, one that ends inside the window of the clock and one that
\* outlasts it, and one invalid configuration per other reason; every input
\* encrypted for the caller with every value, and one input encrypted for
\* somebody else
CampaignConfigs ==
    [name : {"Rocket Launch"}, targetAmount : {POINTS_DIVISOR - 1},
     endTimestamp : {1, 2, MaxTime + 1}]
    \cup {[name |-> "", targetAmount |-> POINTS_DIVISOR - 1, endTimestamp |-> MaxTime + 1],
          [name |-> "Rocket Launch", targetAmount |-> 0, endTimestamp |-> MaxTime + 1]}

ContributeInputs(sender) ==
    [ct : {c \in Ciphertexts : c.owner = sender}, value : Values]
    \cup {[ct |-> [owner |-> CHOOSE a \in Addr : a /= sender, pt |-> Modulus - 1],
           value |-> POINTS_DIVISOR - 1]}

VARIABLES campaign, totalRaised, balance,
          encryptedTotalRaised, encryptedTotalPoints,
          encryptedContributions, encryptedPoints,
          acl, events, now, ingested, lastCall

vars == <<campaign, totalRaised, balance,
          encryptedTotalRaised, encryptedTotalPoints,
          encryptedContributions, encryptedPoints,
          acl, events, now, ingested, lastCall>>

\* ------------------------------------------------- encrypted value primitive
\* euint128 default value: the uninitialized handle bytes32(0)
ZeroHandle == [op |-> "none", args |-> <<>>, tag |-> "", pt |-> 0]

isInitialized(h) == h.op /= "none"

\* FHE.asEuint128(v): trivial encryption of a public value
asEuint128(v) == [op |-> "trivialEncrypt", args |-> <<>>, tag |-> "", pt |-> v % Modulus]

\* FHE.fromExternal(encryptedAmount, inputProof): the handle of the input
proofValid(ct, sender) == ct.owner = sender

fromExternal(ct) == [op |-> "input", args |-> <<>>, tag |-> ct.owner, pt |-> ct.pt]

\* FHE.add(a, b) on euint128: an uninitialized operand is replaced by the
\* trivial encryption of 0; the sum wraps at the width of the type
FHEadd(a, b) ==
    LET x == IF isInitialized(a) THEN a ELSE asEuint128(0)
        y == IF isInitialized(b) THEN b ELSE asEuint128(0)
    IN  [op |-> "add", args |-> <<x, y>>, tag |-> "", pt |-> (x.pt + y.pt) % Modulus]

\* FHE.div(a, scalar): truncating division by a public scalar
FHEdiv(a, d) ==
    LET x == IF isInitialized(a) THEN a ELSE asEuint128(0)
    IN  [op |-> "div", args |-> <<x>>, tag |-> "", pt |-> x.pt \div d]

\* a table that keeps one grant per principal
allow_replace(grants, h, who) == {g \in grants : g[2] /= who} \cup {<<h, who>>}

\* FHE.allow(h, who) / FHE.allowThis(h): add a persistent grant
allow(grants, h, who) == grants \cup {<<h, who>>}

\* ------------------------------------------------------------ contract state
DefaultCampaign ==
    [name |-> "", targetAmount |-> 0, endTimestamp |-> 0,
     fundraiser |-> NullAddr, isActive |-> FALSE]

St == [campaign |-> campaign, totalRaised |-> totalRaised, balance |-> balance,
       encryptedTotalRaised |-> encryptedTotalRaised,
       encryptedTotalPoints |-> encryptedTotalPoints,
       encryptedContributions |-> encryptedContributions,
       encryptedPoints |-> encryptedPoints,
       acl |-> acl, events |-> events, ingested |-> ingested]

InitState ==
    [campaign |-> DefaultCampaign, totalRaised |-> 0, balance |-> 0,
     encryptedTotalRaised |-> ZeroHandle,
     encryptedTotalPoints |-> ZeroHandle,
     encryptedContributions |-> [a \in Addr |-> ZeroHandle],
     encryptedPoints |-> [a \in Addr |-> ZeroHandle],
     acl |-> {}, events |-> <<>>, ingested |-> <<>>]

\* a transaction that reverts leaves the state as it was
Revert(s, e) == [state |-> s, error |-> e]
Ok(s) == [state |-> s, error |-> "ok"]

\* createCampaign guarded by isActive instead of by the fundraiser being set
createCampaign_guardIsActive(s, sender, name, targetAmount, endTimestamp, t) ==
    IF s.campaign.isActive
    THEN Revert(s, "CampaignAlreadyCreated")
    ELSE IF name = "" \/ targetAmount = 0 \/ endTimestamp <= t
    THEN Revert(s, "InvalidCampaignConfig")
    ELSE Ok([s EXCEPT
            !.campaign = [name |-> name, targetAmount |-> targetAmount,
                          endTimestamp |-> endTimestamp,
                          fundraiser |-> sender, isActive |-> TRUE],
            !.events = Append(@, [event |-> "CampaignCreated", name |-> name,
                                  who |-> sender, amount |-> targetAmount,
                                  at |-> endTimestamp])])

\* createCampaign accepting an end timestamp equal to the current time
createCampaign_endNotBefore(s, sender, name, targetAmount, endTimestamp, t) ==
    IF s.campaign.fundraiser /= NullAddr
    THEN Revert(s, "CampaignAlreadyCreated")
    ELSE IF name = "" \/ targetAmount = 0 \/ endTimestamp < t
    THEN Revert(s, "InvalidCampaignConfig")
    ELSE Ok([s EXCEPT
            !.campaign = [name |-> name, targetAmount |-> targetAmount,
                          endTimestamp |-> endTimestamp,
                          fundraiser |-> sender, isActive |-> TRUE],
            !.events = Append(@, [event |-> "CampaignCreated", name |-> name,
                                  who |-> sender, amount |-> targetAmount,
                                  at |-> endTimestamp])])

\* createCampaign storing targetAmount and endTimestamp in each other's field
createCampaign_swapped(s, sender, name, targetAmount, endTimestamp, t) ==
    IF s.campaign.fundraiser /= NullAddr
    THEN Revert(s, "CampaignAlreadyCreated")
    ELSE IF name = "" \/ targetAmount = 0 \/ endTimestamp <= t
    THEN Revert(s, "InvalidCampaignConfig")
    ELSE Ok([s EXCEPT
            !.campaign = [name |-> name, targetAmount |-> endTimestamp,
                          endTimestamp |-> targetAmount,
                          fundraiser |-> sender, isActive |-> TRUE],
            !.events = Append(@, [event |-> "CampaignCreated", name |-> name,
                                  who |-> sender, amount |-> targetAmount,
                                  at |-> endTimestamp])])

\* the campaign activated without recording its creator
createCampaign_noFundraiser(s, sender, name, targetAmount, endTimestamp, t) ==
    IF s.campaign.fundraiser /= NullAddr
    THEN Revert(s, "CampaignAlreadyCreated")
    ELSE IF name = "" \/ targetAmount = 0 \/ endTimestamp <= t
    THEN Revert(s, "InvalidCampaignConfig")
    ELSE Ok([s EXCEPT
            !.campaign = [name |-> name, targetAmount |-> targetAmount,
                          endTimestamp |-> endTimestamp,
                          fundraiser |-> NullAddr, isActive |-> TRUE],
            !.events = Append(@, [event |-> "CampaignCreated", name |-> name,
                                  who |-> sender, amount |-> targetAmount,
                                  at |-> endTimestamp])])

\* ------------------------------------------------------------ createCampaign
createCampaign(s, sender, name, targetAmount, endTimestamp, t) ==
    IF s.campaign.fundraiser /= NullAddr
    THEN Revert(s, "CampaignAlreadyCreated")
    ELSE IF name = "" \/ targetAmount = 0 \/ endTimestamp <= t
    THEN Revert(s, "InvalidCampaignConfig")
    ELSE Ok([s EXCEPT
            !.campaign = [name |-> name, targetAmount |-> targetAmount,
                          endTimestamp |-> endTimestamp,
                          fundraiser |-> sender, isActive |-> TRUE],
            !.events = Append(@, [event |-> "CampaignCreated", name |-> name,
                                  who |-> sender, amount |-> targetAmount,
                                  at |-> endTimestamp])])

\* contribute without the isActive check
contributeError_noActiveCheck(s, sender, ct, value, t) ==
    IF t >= s.campaign.endTimestamp THEN "CampaignAlreadyEnded"
    ELSE IF value = 0 THEN "ZeroContribution"
    ELSE IF ~proofValid(ct, sender) THEN "InvalidInputProof"
    ELSE "ok"

\* contribute checking the attached value first
contributeError_valueFirst(s, sender, ct, value, t) ==
    IF value = 0 THEN "ZeroContribution"
    ELSE IF ~s.campaign.isActive THEN "CampaignInactive"
    ELSE IF t >= s.campaign.endTimestamp THEN "CampaignAlreadyEnded"
    ELSE IF ~proofValid(ct, sender) THEN "InvalidInputProof"
    ELSE "ok"

\* contribute ingesting the input without validating its proof
contributeError_noProofCheck(s, sender, ct, value, t) ==
    IF ~s.campaign.isActive THEN "CampaignInactive"
    ELSE IF t >= s.campaign.endTimestamp THEN "CampaignAlreadyEnded"
    ELSE IF value = 0 THEN "ZeroContribution"
    ELSE "ok"

\* contribute without the two lifecycle checks
contributeError_noLifecycle(s, sender, ct, value, t) ==
    IF value = 0 THEN "ZeroContribution"
    ELSE IF ~proofValid(ct, sender) THEN "InvalidInputProof"
    ELSE "ok"

\* contribute refused once the target is met
contributeError_enforceTarget(s, sender, ct, value, t) ==
    IF ~s.campaign.isActive THEN "CampaignInactive"
    ELSE IF t >= s.campaign.endTimestamp THEN "CampaignAlreadyEnded"
    ELSE IF s.totalRaised >= s.campaign.targetAmount THEN "TargetReached"
    ELSE IF value = 0 THEN "ZeroContribution"
    ELSE IF ~proofValid(ct, sender) THEN "InvalidInputProof"
    ELSE "ok"

\* contribute still open at the end timestamp itself
contributeError_deadlineInclusive(s, sender, ct, value, t) ==
    IF ~s.campaign.isActive THEN "CampaignInactive"
    ELSE IF t > s.campaign.endTimestamp THEN "CampaignAlreadyEnded"
    ELSE IF value = 0 THEN "ZeroContribution"
    ELSE IF ~proofValid(ct, sender) THEN "InvalidInputProof"
    ELSE "ok"

\* ---------------------------------------------------------------- contribute
\* the checks of contribute, in the order of the code; fromExternal reverts
\* when the proof does not bind the input to the caller and this contract
contributeError(s, sender, ct, value, t) ==
    IF ~s.campaign.isActive THEN "CampaignInactive"
    ELSE IF t >= s.campaign.endTimestamp THEN "CampaignAlreadyEnded"
    ELSE IF value = 0 THEN "ZeroContribution"
    ELSE IF ~proofValid(ct, sender) THEN "InvalidInputProof"
    ELSE "ok"

\* points earned by one contribution
contributionPoints(amount) == FHEdiv(amount, POINTS_DIVISOR)

\* points recomputed from the updated contribution (truncating the sum)
contributeLedger_truncSum(s, sender, amount) ==
    [s EXCEPT
        !.encryptedContributions[sender] = FHEadd(@, amount),
        !.encryptedPoints[sender] =
            FHEdiv(FHEadd(s.encryptedContributions[sender], amount), POINTS_DIVISOR),
        !.encryptedTotalRaised = FHEadd(@, amount),
        !.encryptedTotalPoints = FHEadd(@, FHEdiv(amount, POINTS_DIVISOR))]

\* the total overwritten with the caller's updated entry
contributeLedger_totalFromEntry(s, sender, amount) ==
    [s EXCEPT
        !.encryptedContributions[sender] = FHEadd(@, amount),
        !.encryptedPoints[sender] = FHEadd(@, FHEdiv(amount, POINTS_DIVISOR)),
        !.encryptedTotalRaised = FHEadd(s.encryptedContributions[sender], amount),
        !.encryptedTotalPoints = FHEadd(@, FHEdiv(amount, POINTS_DIVISOR))]

\* the contribution booked under the fundraiser's key
contributeLedger_wrongKey(s, sender, amount) ==
    [s EXCEPT
        !.encryptedContributions[s.campaign.fundraiser] = FHEadd(@, amount),
        !.encryptedPoints[sender] = FHEadd(@, contributionPoints(amount)),
        !.encryptedTotalRaised = FHEadd(@, amount),
        !.encryptedTotalPoints = FHEadd(@, contributionPoints(amount))]

\* the four accumulators
contributeLedger(s, sender, amount) ==
    [s EXCEPT
        !.encryptedContributions[sender] = FHEadd(@, amount),
        !.encryptedPoints[sender] = FHEadd(@, contributionPoints(amount)),
        !.encryptedTotalRaised = FHEadd(@, amount),
        !.encryptedTotalPoints = FHEadd(@, contributionPoints(amount))]

\* totalRaised assigned instead of incremented
contributeSettle_assign(s, value) ==
    [s EXCEPT !.totalRaised = value, !.balance = @ + value]

\* totalRaised += msg.value; the attached value is held by the contract (the
\* contract has no receive or fallback function: value reaches it only with
\* an accepted contribute)
contributeSettle(s, value) ==
    [s EXCEPT !.totalRaised = @ + value, !.balance = @ + value]

\* the grants on the updated values
totalsGrants(s, grants) ==
    IF s.campaign.fundraiser /= NullAddr
    THEN allow(allow(grants, s.encryptedTotalRaised, s.campaign.fundraiser),
               s.encryptedTotalPoints, s.campaign.fundraiser)
    ELSE grants

\* the caller's grant on the updated points left out
contributeGrants_noPointsGrant(s, sender) ==
    LET g1 == allow(allow(s.acl, s.encryptedContributions[sender], This),
                    s.encryptedContributions[sender], sender)
        g2 == allow(g1, s.encryptedPoints[sender], This)
        g3 == allow(allow(g2, s.encryptedTotalRaised, This),
                    s.encryptedTotalPoints, This)
    IN  [s EXCEPT !.acl = totalsGrants(s, g3)]

contributeGrants(s, sender) ==
    LET g1 == allow(allow(s.acl, s.encryptedContributions[sender], This),
                    s.encryptedContributions[sender], sender)
        g2 == allow(allow(g1, s.encryptedPoints[sender], This),
                    s.encryptedPoints[sender], sender)
        g3 == allow(allow(g2, s.encryptedTotalRaised, This),
                    s.encryptedTotalPoints, This)
    IN  [s EXCEPT !.acl = totalsGrants(s, g3)]

\* the accepted contribution left out of the event log
contribute_noEvent(s, sender, ct, value, t) ==
    IF contributeError(s, sender, ct, value, t) /= "ok"
    THEN Revert(s, contributeError(s, sender, ct, value, t))
    ELSE LET amount == fromExternal(ct)
             s1 == contributeLedger(s, sender, amount)
             s2 == contributeSettle(s1, value)
             s3 == contributeGrants(s2, sender)
         IN  Ok([s3 EXCEPT
                 !.ingested = Append(@, [contributor |-> sender, amount |-> ct.pt,
                                         value |-> value])])

contribute(s, sender, ct, value, t) ==
    IF contributeError(s, sender, ct, value, t) /= "ok"
    THEN Revert(s, contributeError(s, sender, ct, value, t))
    ELSE LET amount == fromExternal(ct)
             s1 == contributeLedger(s, sender, amount)
             s2 == contributeSettle(s1, value)
             s3 == contributeGrants(s2, sender)
         IN  Ok([s3 EXCEPT
                 !.events = Append(@, [event |-> "ContributionReceived", name |-> "",
                                       who |-> sender, amount |-> value, at |-> 0]),
                 !.ingested = Append(@, [contributor |-> sender, amount |-> ct.pt,
                                         value |-> value])])

\* endCampaign without the isActive check
endCampaignError_noActiveCheck(s, sender, success) ==
    IF sender /= s.campaign.fundraiser THEN "Unauthorized"
    ELSE IF ~success THEN "WithdrawalFailed"
    ELSE "ok"

\* endCampaign checking isActive before the caller
endCampaignError_activeFirst(s, sender, success) ==
    IF ~s.campaign.isActive THEN "CampaignInactive"
    ELSE IF sender /= s.campaign.fundraiser THEN "Unauthorized"
    ELSE IF ~success THEN "WithdrawalFailed"
    ELSE "ok"

\* the result of the transfer ignored
endCampaignError_ignoreTransfer(s, sender, success) ==
    IF sender /= s.campaign.fundraiser THEN "Unauthorized"
    ELSE IF ~s.campaign.isActive THEN "CampaignInactive"
    ELSE "ok"

\* --------------------------------------------------------------- endCampaign
endCampaignError(s, sender, success) ==
    IF sender /= s.campaign.fundraiser THEN "Unauthorized"
    ELSE IF ~s.campaign.isActive THEN "CampaignInactive"
    ELSE IF ~success THEN "WithdrawalFailed"
    ELSE "ok"

\* the sweep without the isActive flip
endCampaign_noFlip(s, sender, success, t) ==
    IF endCampaignError(s, sender, success) /= "ok"
    THEN Revert(s, endCampaignError(s, sender, success))
    ELSE Ok([s EXCEPT
            !.balance = 0,
            !.events = Append(@, [event |-> "CampaignEnded", name |-> "",
                                  who |-> s.campaign.fundraiser,
                                  amount |-> s.balance, at |-> t])])

\* the logged amount read after the transfer
endCampaign_logAfterSweep(s, sender, success, t) ==
    IF endCampaignError(s, sender, success) /= "ok"
    THEN Revert(s, endCampaignError(s, sender, success))
    ELSE Ok([s EXCEPT
            !.campaign.isActive = FALSE,
            !.balance = 0,
            !.events = Append(@, [event |-> "CampaignEnded", name |-> "",
                                  who |-> s.campaign.fundraiser,
                                  amount |-> 0, at |-> t])])

\* endCampaign refused before the end timestamp
endCampaign_afterDeadlineOnly(s, sender, success, t) ==
    IF endCampaignError(s, sender, success) /= "ok"
    THEN Revert(s, endCampaignError(s, sender, success))
    ELSE IF t < s.campaign.endTimestamp
    THEN Revert(s, "CampaignInactive")
    ELSE Ok([s EXCEPT
            !.campaign.isActive = FALSE,
            !.balance = 0,
            !.events = Append(@, [event |-> "CampaignEnded", name |-> "",
                                  who |-> s.campaign.fundraiser,
                                  amount |-> s.balance, at |-> t])])

\* the sweep resetting the running total
endCampaign_zeroTotal(s, sender, success, t) ==
    IF endCampaignError(s, sender, success) /= "ok"
    THEN Revert(s, endCampaignError(s, sender, success))
    ELSE Ok([s EXCEPT
            !.campaign.isActive = FALSE,
            !.balance = 0,
            !.totalRaised = 0,
            !.events = Append(@, [event |-> "CampaignEnded", name |-> "",
                                  who |-> s.campaign.fundraiser,
                                  amount |-> s.balance, at |-> t])])

\* the sweep clearing the encrypted totals
endCampaign_resetLedger(s, sender, success, t) ==
    IF endCampaignError(s, sender, success) /= "ok"
    THEN Revert(s, endCampaignError(s, sender, success))
    ELSE Ok([s EXCEPT
            !.campaign.isActive = FALSE,
            !.balance = 0,
            !.encryptedTotalRaised = ZeroHandle,
            !.encryptedTotalPoints = ZeroHandle,
            !.events = Append(@, [event |-> "CampaignEnded", name |-> "",
                                  who |-> s.campaign.fundraiser,
                                  amount |-> s.balance, at |-> t])])

\* success: whether the fundraiser's address accepts the transfer
endCampaign(s, sender, success, t) ==
    IF endCampaignError(s, sender, success) /= "ok"
    THEN Revert(s, endCampaignError(s, sender, success))
    ELSE Ok([s EXCEPT
            !.campaign.isActive = FALSE,
            !.balance = 0,
            !.events = Append(@, [event |-> "CampaignEnded", name |-> "",
                                  who |-> s.campaign.fundraiser,
                                  amount |-> s.balance, at |-> t])])

\* ------------------------------------------------- the transfer's callback
\* the transfer hands control to the code at the fundraiser's address, which
\* can call back into the contract before endCampaign returns
\* a call back into the contract: fn names the function, the other fields
\* are its caller and arguments (those that fn does not take are ignored)
NoCall ==
    [fn |-> "none", sender |-> NullAddr, ct |-> [owner |-> NullAddr, pt |-> 0],
     value |-> 0, name |-> "", targetAmount |-> 0, endTimestamp |-> 0,
     success |-> TRUE]

ReentrantCalls ==
    {[NoCall EXCEPT !.fn = "endCampaign", !.sender = a, !.success = b] :
        a \in Addr, b \in BOOLEAN}
    \cup {[NoCall EXCEPT !.fn = "contribute", !.sender = a, !.ct = c, !.value = v] :
        a \in Addr, c \in Ciphertexts, v \in Values}
    \cup {[NoCall EXCEPT !.fn = "createCampaign", !.sender = a, !.name = c.name,
                         !.targetAmount = c.targetAmount,
                         !.endTimestamp = c.endTimestamp] :
        a \in Addr, c \in CampaignConfigs}

\* the calls the fundraiser's own receiving code makes in the actions: one
\* well-formed call to each function
CallbackCalls(fundraiser) ==
    {[NoCall EXCEPT !.fn = "endCampaign", !.sender = fundraiser],
     [NoCall EXCEPT !.fn = "contribute", !.sender = fundraiser,
                    !.ct = [owner |-> fundraiser, pt |-> POINTS_DIVISOR - 1],
                    !.value = POINTS_DIVISOR - 1],
     [NoCall EXCEPT !.fn = "createCampaign", !.sender = fundraiser,
                    !.name = "Rocket Launch", !.targetAmount = POINTS_DIVISOR - 1,
                    !.endTimestamp = MaxTime + 1]}

\* the flag cleared only after the transfer has returned
endCampaignSweep_flagAfterTransfer(s) ==
    [s EXCEPT !.balance = 0]

\* the state in which the callback runs: isActive is already false and the
\* whole balance has left the contract
endCampaignSweep(s) ==
    [s EXCEPT !.campaign.isActive = FALSE, !.balance = 0]

\* one call made by the callback, on the state the callback sees
Reenter(s, call, t) ==
    IF call.fn = "endCampaign" THEN endCampaign(s, call.sender, call.success, t)
    ELSE IF call.fn = "contribute" THEN contribute(s, call.sender, call.ct, call.value, t)
    ELSE IF call.fn = "createCampaign"
         THEN createCampaign(s, call.sender, call.name, call.targetAmount,
                             call.endTimestamp, t)
    ELSE Ok(s)

\* endCampaign whose transfer runs a callback that makes the given call;
\* whatever the call leaves behind is kept when the transfer succeeds
endCampaignReentered(s, sender, success, t, call) ==
    IF endCampaignError(s, sender, success) /= "ok"
    THEN Revert(s, endCampaignError(s, sender, success))
    ELSE Ok([Reenter(endCampaignSweep(s), call, t).state EXCEPT
            !.events = Append(@, [event |-> "CampaignEnded", name |-> "",
                                  who |-> s.campaign.fundraiser,
                                  amount |-> s.balance, at |-> t])])

\* ------------------------------------------------------------ read accessors
getCampaignInfo(s) ==
    <<s.campaign.name, s.campaign.targetAmount, s.campaign.endTimestamp,
      s.campaign.fundraiser, s.campaign.isActive, s.totalRaised>>

getEncryptedContribution(s, user) == s.encryptedContributions[user]

getEncryptedPoints(s, user) == s.encryptedPoints[user]

getEncryptedTotals(s) == <<s.encryptedTotalRaised, s.encryptedTotalPoints>>

Commit(r, op) ==
    /\ campaign' = r.state.campaign
    /\ totalRaised' = r.state.totalRaised
    /\ balance' = r.state.balance
    /\ encryptedTotalRaised' = r.state.encryptedTotalRaised
    /\ encryptedTotalPoints' = r.state.encryptedTotalPoints
    /\ encryptedContributions' = r.state.encryptedContributions
    /\ encryptedPoints' = r.state.encryptedPoints
    /\ acl' = r.state.acl
    /\ events' = r.state.events
    /\ ingested' = r.state.ingested
    /\ lastCall' = [op |-> op, error |-> r.error]

CreateCampaign ==
    \E sender \in Addr, c \in CampaignConfigs :
        /\ Commit(createCampaign(St, sender, c.name, c.targetAmount, c.endTimestamp, now),
                  "createCampaign")
        /\ UNCHANGED now

Contribute ==
    \E sender \in Addr : \E in \in ContributeInputs(sender) :
        /\ \/ Len(ingested) < MaxContributions
           \/ contribute(St, sender, in.ct, in.value, now).error /= "ok"
        /\ Commit(contribute(St, sender, in.ct, in.value, now), "contribute")
        /\ UNCHANGED now

EndCampaign ==
    \E sender \in Addr, success \in BOOLEAN :
        /\ Commit(endCampaign(St, sender, success, now), "endCampaign")
        /\ UNCHANGED now

\* an endCampaign that reaches its transfer, the fundraiser's receiving code
\* calling back into the contract
EndCampaignReentered ==
    \E success \in BOOLEAN : \E call \in CallbackCalls(campaign.fundraiser) :
        /\ endCampaignError(St, campaign.fundraiser, TRUE) = "ok"
        /\ Commit(endCampaignReentered(St, campaign.fundraiser, success, now, call),
                  "endCampaign with callback")
        /\ UNCHANGED now

\* the block timestamp advances between transactions
Tick ==
    /\ now < MaxTime
    /\ now' = now + 1
    /\ UNCHANGED <<campaign, totalRaised, balance,
                   encryptedTotalRaised, encryptedTotalPoints,
                   encryptedContributions, encryptedPoints,
                   acl, events, ingested, lastCall>>

\* ------------------------------------------------------------------ history
Created == \E i \in 1 .. Len(events) : events[i].event = "CampaignCreated"
Ended == \E i \in 1 .. Len(events) : events[i].event = "CampaignEnded"

RECURSIVE SumValues(_)
SumValues(h) == IF h = <<>> THEN 0 ELSE h[1].value + SumValues(Tail(h))

\* the amounts ingested from contributor c, and the points each earned
RECURSIVE SumAmounts(_, _)
SumAmounts(h, c) ==
    IF h = <<>> THEN 0
    ELSE (IF h[1].contributor = c THEN h[1].amount ELSE 0) + SumAmounts(Tail(h), c)

RECURSIVE SumPoints(_, _)
SumPoints(h, c) ==
    IF h = <<>> THEN 0
    ELSE (IF h[1].contributor = c THEN h[1].amount \div POINTS_DIVISOR ELSE 0)
         + SumPoints(Tail(h), c)

RECURSIVE SumPlain(_, _)
SumPlain(f, S) ==
    IF S = {} THEN 0
    ELSE LET a == CHOOSE x \in S : TRUE IN f[a].pt + SumPlain(f, S \ {a})

\* the values an entry has held: an entry is add(previous entry, increment)
RECURSIVE EverHeld(_)
EverHeld(h) == IF h.op = "add" THEN {h} \cup EverHeld(h.args[1]) ELSE {}

\* ------------------------------------------------------------------- claims

\* C1: once a createCampaign has succeeded, every createCampaign (any caller,
\* any arguments, campaign Active or Ended) fails with CampaignAlreadyCreated
\* and leaves the campaign record as it is.
C1_SingleCreation ==
    Created =>
        \A sender \in Addr, name \in Names, targetAmount \in Targets,
           endTimestamp \in EndTimestamps :
            LET r == createCampaign(St, sender, name, targetAmount, endTimestamp, now)
            IN  /\ r.error = "CampaignAlreadyCreated"
                /\ r.state.campaign = campaign

C1_Witness ==
    /\ Ended
    /\ lastCall = [op |-> "createCampaign", error |-> "CampaignAlreadyCreated"]

\* C2: totalRaised is exactly the sum of the values attached to the accepted
\* contributions; rejected calls add nothing.
C2_Conservation == totalRaised = SumValues(ingested)

C2_Witness ==
    /\ Len(ingested) = 2
    /\ totalRaised = 2 * (POINTS_DIVISOR - 1)
    /\ lastCall.op = "contribute" /\ lastCall.error /= "ok"

\* C3: after a successful endCampaign the contract holds nothing and every
\* contribute (any caller, input, value, at the current time) is rejected
\* with CampaignInactive or CampaignAlreadyEnded.
C3_Terminality ==
    Ended =>
        /\ balance = 0
        /\ \A sender \in Addr, ct \in Ciphertexts, value \in Values :
            LET r == contribute(St, sender, ct, value, now)
            IN  /\ r.error \in {"CampaignInactive", "CampaignAlreadyEnded"}
                /\ r.state.balance = 0

C3_Witness ==
    /\ Ended
    /\ now < campaign.endTimestamp
    /\ Len(ingested) > 0
    /\ lastCall = [op |-> "contribute", error |-> "CampaignInactive"]

\* C4: endCampaign by the fundraiser on an Active campaign whose transfer
\* fails is rejected with WithdrawalFailed; isActive stays true, the held
\* balance is unchanged and no CampaignEnded is logged.
C4_SettlementAtomicity ==
    campaign.isActive =>
        LET r == endCampaign(St, campaign.fundraiser, FALSE, now)
        IN  /\ r.error = "WithdrawalFailed"
            /\ r.state.campaign.isActive
            /\ r.state.balance = balance
            /\ r.state.events = events
            /\ ~Ended

C4_Witness ==
    /\ lastCall = [op |-> "endCampaign", error |-> "WithdrawalFailed"]
    /\ campaign.isActive
    /\ balance > 0

\* C5: no principal (other than the contract itself) holds a grant on a value
\* that is or ever was another principal's encryptedContribution or
\* encryptedPoints entry.
C5_AccessIsolation ==
    \A g \in acl : \A a \in Addr :
        (g[2] /= This /\ g[2] /= a) =>
            g[1] \notin (EverHeld(encryptedContributions[a])
                         \cup EverHeld(encryptedPoints[a]))

\* C6: an accepted contribution of amount a adds floor(a / POINTS_DIVISOR)
\* to the caller's encryptedPoints and to encryptedTotalPoints (in the
\* arithmetic of the encrypted type); a contributor's points are the sum of
\* the per-call quotients, which is at most the quotient of the summed amounts.
C6_PointsTruncation ==
    /\ \A sender \in Addr, ct \in Ciphertexts, value \in Values :
        LET r == contribute(St, sender, ct, value, now)
            q == ct.pt \div POINTS_DIVISOR
        IN  r.error = "ok" =>
              /\ r.state.encryptedPoints[sender].pt
                    = (encryptedPoints[sender].pt + q) % Modulus
              /\ r.state.encryptedTotalPoints.pt
                    = (encryptedTotalPoints.pt + q) % Modulus
    /\ \A c \in Addr :
        /\ encryptedPoints[c].pt = SumPoints(ingested, c) % Modulus
        /\ SumPoints(ingested, c) <= SumAmounts(ingested, c) \div POINTS_DIVISOR

\* two contributions by one contributor whose remainders add up to a point
\* that neither call earned
C6_Witness ==
    \E c \in Addr :
        /\ Len(ingested) = 2
        /\ ingested[1].contributor = c /\ ingested[2].contributor = c
        /\ encryptedPoints[c].pt = SumPoints(ingested, c)
        /\ SumPoints(ingested, c) < SumAmounts(ingested, c) \div POINTS_DIVISOR

\* C7 as stated: after create, an accepted contribution and a successful
\* endCampaign, a contribute with a positive value before endTimestamp fails
\* with CampaignAlreadyEnded.
C7_FailsAlreadyEnded ==
    (Ended /\ Len(ingested) > 0 /\ now < campaign.endTimestamp) =>
        \A sender \in Addr, ct \in Ciphertexts, value \in Values \ {0} :
            contribute(St, sender, ct, value, now).error = "CampaignAlreadyEnded"

\* C7 amended: that contribute fails with CampaignInactive, the first check
\* of contribute, and the contract still holds nothing.
C7_FailsInactive ==
    (Ended /\ Len(ingested) > 0 /\ now < campaign.endTimestamp) =>
        /\ balance = 0 /\ ~campaign.isActive
        /\ \A sender \in Addr, ct \in Ciphertexts, value \in Values \ {0} :
            contribute(St, sender, ct, value, now).error = "CampaignInactive"

C7_Witness ==
    /\ Ended /\ Len(ingested) = 1 /\ now < campaign.endTimestamp
    /\ balance = 0 /\ ~campaign.isActive
    /\ totalRaised > 0
    /\ lastCall = [op |-> "contribute", error |-> "CampaignInactive"]

\* C8: the plaintext of encryptedTotalRaised equals the public totalRaised,
\* and every accepted contribution adds to the caller's encryptedContribution
\* what it adds to totalRaised.
C8_BooksConsistent ==
    /\ encryptedTotalRaised.pt = totalRaised % Modulus
    /\ \A sender \in Addr, ct \in Ciphertexts, value \in Values :
        LET r == contribute(St, sender, ct, value, now)
        IN  r.error = "ok" =>
              r.state.encryptedContributions[sender].pt
                = (encryptedContributions[sender].pt
                   + (r.state.totalRaised - totalRaised)) % Modulus

\* the run of accepted contributions, replayed from the created campaign
CreatedState ==
    [InitState EXCEPT !.campaign = [campaign EXCEPT !.isActive = TRUE],
                      !.events = SubSeq(events, 1, 1)]

RECURSIVE Replay(_, _)
Replay(s, h) ==
    IF h = <<>> THEN s
    ELSE Replay(contribute(s, h[1].contributor,
                           [owner |-> h[1].contributor, pt |-> h[1].amount],
                           h[1].value, s.campaign.endTimestamp - 1).state,
                Tail(h))

\* the plaintexts a principal can obtain with the grants it holds
View(s, p) == {g[1].pt : g \in {x \in s.acl : x[2] = p}}

\* C9: two runs that differ only in the encrypted amount of one contribution
\* give every principal other than its contributor the same plaintexts on
\* the values that principal holds grants on.
C9_NoMagnitudeLeak ==
    Created =>
        \A i \in 1 .. Len(ingested), alt \in Amounts :
            \A p \in Addr \ {ingested[i].contributor} :
                View(Replay(CreatedState, ingested), p)
                  = View(Replay(CreatedState, [ingested EXCEPT ![i].amount = alt]), p)

\* C10: encryptedTotalRaised is the sum (at the width of the encrypted type)
\* of the encryptedContribution entries, encryptedTotalPoints that of the
\* encryptedPoints entries.
C10_LedgerAggregate ==
    /\ encryptedTotalRaised.pt = SumPlain(encryptedContributions, Addr) % Modulus
    /\ encryptedTotalPoints.pt = SumPlain(encryptedPoints, Addr) % Modulus

\* two contributors whose entries add up past the width of the type
C10_Witness ==
    /\ Cardinality({a \in Addr : encryptedContributions[a].pt > 0}) = 2
    /\ SumPlain(encryptedContributions, Addr) >= Modulus
    /\ SumPlain(encryptedPoints, Addr) > 0

\* the grants due after a contribution by c, on the values held in state s
GrantsDue(s, c) ==
    {<<s.encryptedContributions[c], This>>, <<s.encryptedPoints[c], This>>,
     <<s.encryptedTotalRaised, This>>, <<s.encryptedTotalPoints, This>>,
     <<s.encryptedContributions[c], c>>, <<s.encryptedPoints[c], c>>,
     <<s.encryptedTotalRaised, s.campaign.fundraiser>>,
     <<s.encryptedTotalPoints, s.campaign.fundraiser>>}

\* C11: after every accepted contribute by c the capability table holds the
\* contract's grants on c's two entries and both totals, c's grants on c's
\* two entries and the fundraiser's grants on both totals (current values).
C11_GrantsIssued ==
    /\ \A sender \in Addr, ct \in Ciphertexts, value \in Values :
        LET r == contribute(St, sender, ct, value, now)
        IN  r.error = "ok" =>
              /\ r.state.campaign.fundraiser \in Addr
              /\ GrantsDue(r.state, sender) \subseteq r.state.acl
    /\ ingested /= <<>> =>
        GrantsDue(St, ingested[Len(ingested)].contributor) \subseteq acl

C11_Witness ==
    /\ Len(ingested) = 2
    /\ lastCall = [op |-> "contribute", error |-> "ok"]
    /\ ingested[2].contributor /= campaign.fundraiser
    /\ ingested[1].contributor /= ingested[2].contributor
    /\ Cardinality(acl) > Cardinality(GrantsDue(St, ingested[2].contributor))

\* every value an entry or a total has held is still granted to its principal
HistoricalGrantsKept ==
    /\ \A a \in Addr :
        \A h \in EverHeld(encryptedContributions[a]) \cup EverHeld(encryptedPoints[a]) :
            <<h, a>> \in acl
    /\ \A h \in EverHeld(encryptedTotalRaised) \cup EverHeld(encryptedTotalPoints) :
            <<h, campaign.fundraiser>> \in acl

\* C12: no step removes a grant, so every contributor keeps capability on
\* every value its entries ever held and the fundraiser on every value the
\* totals ever held, also after the campaign has ended.
C12_GrantsNeverRevoked ==
    /\ [][acl \subseteq acl']_vars
    /\ [](HistoricalGrantsKept)

C12_Witness ==
    /\ Ended
    /\ Len(ingested) = 2
    /\ ingested[1].contributor = ingested[2].contributor
    /\ lastCall = [op |-> "contribute", error |-> "CampaignInactive"]
    /\ HistoricalGrantsKept
    /\ Cardinality(acl) >= 12

\* the lifecycle state of a campaign record
Lifecycle(c) ==
    IF c.fundraiser = NullAddr THEN "Uninitialized"
    ELSE IF c.isActive THEN "Active" ELSE "Ended"

CountEvents(kind) == Cardinality({i \in 1 .. Len(events) : events[i].event = kind})

LifecycleStep ==
    <<Lifecycle(campaign), Lifecycle(campaign')>> \in
        {<<"Uninitialized", "Uninitialized">>, <<"Uninitialized", "Active">>,
         <<"Active", "Active">>, <<"Active", "Ended">>,
         <<"Ended", "Ended">>}

\* C13: the lifecycle only moves Uninitialized -> Active -> Ended, never
\* back; createCampaign and endCampaign each succeed at most once.
C13_OneWayLifecycle ==
    /\ [][LifecycleStep]_vars
    /\ [](/\ CountEvents("CampaignCreated") <= 1
          /\ CountEvents("CampaignEnded") <= 1
          /\ (Lifecycle(campaign) = "Uninitialized") = (CountEvents("CampaignCreated") = 0)
          /\ (Lifecycle(campaign) = "Ended") = (CountEvents("CampaignEnded") = 1))

C13_Witness ==
    /\ Lifecycle(campaign) = "Ended"
    /\ CountEvents("CampaignCreated") = 1
    /\ CountEvents("CampaignEnded") = 1
    /\ lastCall = [op |-> "endCampaign", error |-> "CampaignInactive"]

BalanceDecreaseIsSweep ==
    balance' < balance => (campaign.isActive /\ ~campaign'.isActive)

\* C14: once a campaign exists, isActive = false implies that the contract
\* holds nothing, and the held balance decreases only in a step that takes
\* isActive from true to false.
C14_EndedAndSwept ==
    /\ []((campaign.fundraiser /= NullAddr /\ ~campaign.isActive) => balance = 0)
    /\ [][BalanceDecreaseIsSweep]_vars

C14_Witness ==
    /\ campaign.fundraiser /= NullAddr /\ ~campaign.isActive
    /\ balance = 0
    /\ events[Len(events)].event = "CampaignEnded"
    /\ events[Len(events)].amount > 0
    /\ lastCall = [op |-> "endCampaign", error |-> "ok"]

\* C15: while the campaign is Active the held balance equals totalRaised,
\* and a successful endCampaign transfers, and reports in CampaignEnded,
\* totalRaised.
C15_SettlementUsesTotalRaised ==
    /\ campaign.isActive =>
        /\ balance = totalRaised
        /\ LET r == endCampaign(St, campaign.fundraiser, TRUE, now)
           IN  /\ r.error = "ok"
               /\ balance - r.state.balance = totalRaised
               /\ r.state.events[Len(r.state.events)].event = "CampaignEnded"
               /\ r.state.events[Len(r.state.events)].amount = totalRaised
    /\ \A i \in 1 .. Len(events) :
        events[i].event = "CampaignEnded" => events[i].amount = totalRaised

C15_Witness ==
    /\ Ended
    /\ lastCall = [op |-> "endCampaign", error |-> "ok"]
    /\ totalRaised = 2 * (POINTS_DIVISOR - 1)
    /\ events[Len(events)].amount = totalRaised

\* C16: in Uninitialized, createCampaign fails with InvalidCampaignConfig
\* exactly when the name is empty, the target is 0 or the end timestamp is
\* not after the current time; the failure sets nothing, and a valid
\* createCampaign still succeeds afterwards.
C16_CreateValidation ==
    campaign.fundraiser = NullAddr =>
        \A sender \in Addr, name \in Names, targetAmount \in Targets,
           endTimestamp \in EndTimestamps :
            LET r == createCampaign(St, sender, name, targetAmount, endTimestamp, now)
                invalid == name = "" \/ targetAmount = 0 \/ endTimestamp <= now
            IN  /\ (r.error = "InvalidCampaignConfig") = invalid
                /\ ~invalid => r.error = "ok"
                /\ invalid =>
                    /\ r.state = St
                    /\ r.state.campaign = DefaultCampaign
                    /\ createCampaign(r.state, sender, "Rocket Launch",
                                      POINTS_DIVISOR, MaxTime + 1, now).error = "ok"

C16_Witness ==
    /\ campaign = DefaultCampaign
    /\ events = <<>>
    /\ now > 1
    /\ lastCall = [op |-> "createCampaign", error |-> "InvalidCampaignConfig"]

\* C17: a successful createCampaign(name, target, end) by c gives
\* getCampaignInfo = (name, target, end, c, true, 0) and logs one
\* CampaignCreated.
C17_CreateEffect ==
    \A sender \in Addr, name \in Names, targetAmount \in Targets,
       endTimestamp \in EndTimestamps :
        LET r == createCampaign(St, sender, name, targetAmount, endTimestamp, now)
        IN  r.error = "ok" =>
              /\ getCampaignInfo(r.state)
                    = <<name, targetAmount, endTimestamp, sender, TRUE, 0>>
              /\ r.state.events
                    = <<[event |-> "CampaignCreated", name |-> name, who |-> sender,
                         amount |-> targetAmount, at |-> endTimestamp]>>

C17_Witness ==
    /\ lastCall = [op |-> "createCampaign", error |-> "ok"]
    /\ getCampaignInfo(St)
          = <<"Rocket Launch", POINTS_DIVISOR - 1, MaxTime + 1, "alice", TRUE, 0>>
    /\ Len(events) = 1

\* C18: contribute fails with CampaignInactive when the campaign is not
\* Active, otherwise with CampaignAlreadyEnded when the current time is not
\* before endTimestamp, otherwise with ZeroContribution when no value is
\* attached; each of these rejections leaves the whole state unchanged.
C18_ContributeRejections ==
    \A sender \in Addr, ct \in Ciphertexts, value \in Values :
        LET r == contribute(St, sender, ct, value, now)
        IN  /\ IF Lifecycle(campaign) /= "Active"
                   THEN r.error = "CampaignInactive"
               ELSE IF now >= campaign.endTimestamp
                   THEN r.error = "CampaignAlreadyEnded"
               ELSE IF value = 0
                   THEN r.error = "ZeroContribution"
               ELSE r.error \notin {"CampaignInactive", "CampaignAlreadyEnded",
                                    "ZeroContribution"}
            /\ r.error \in {"CampaignInactive", "CampaignAlreadyEnded",
                            "ZeroContribution"} => r.state = St

C18_Witness ==
    /\ Lifecycle(campaign) = "Active"
    /\ now >= campaign.endTimestamp
    /\ Len(ingested) > 0
    /\ lastCall = [op |-> "contribute", error |-> "CampaignAlreadyEnded"]

\* C19: endCampaign by anyone but the fundraiser fails with Unauthorized in
\* every state (in Uninitialized that is every caller), by the fundraiser
\* with CampaignInactive when the campaign is not Active; the rejection
\* leaves isActive and the held balance unchanged.
C19_EndAuthorization ==
    \A sender \in Addr, success \in BOOLEAN :
        LET r == endCampaign(St, sender, success, now)
        IN  /\ sender /= campaign.fundraiser => r.error = "Unauthorized"
            /\ Lifecycle(campaign) = "Uninitialized" => r.error = "Unauthorized"
            /\ (sender = campaign.fundraiser /\ Lifecycle(campaign) /= "Active")
                   => r.error = "CampaignInactive"
            /\ r.error \in {"Unauthorized", "CampaignInactive"} =>
                   /\ r.state.campaign.isActive = campaign.isActive
                   /\ r.state.balance = balance

C19_Witness ==
    /\ Lifecycle(campaign) = "Uninitialized"
    /\ lastCall = [op |-> "endCampaign", error |-> "Unauthorized"]

\* C20: in every Active state the fundraiser's endCampaign is accepted when
\* the transfer succeeds, whatever the time and whatever totalRaised is.
C20_EndAtAnyTime ==
    campaign.isActive =>
        LET r == endCampaign(St, campaign.fundraiser, TRUE, now)
        IN  /\ r.error = "ok"
            /\ ~r.state.campaign.isActive
            /\ r.state.balance = 0

\* ended before the end timestamp, with nothing raised
C20_Witness ==
    /\ Ended
    /\ lastCall = [op |-> "endCampaign", error |-> "ok"]
    /\ events[Len(events)].at < campaign.endTimestamp
    /\ totalRaised = 0
    /\ totalRaised < campaign.targetAmount

\* the step of a successful endCampaign
SweepStep == campaign.isActive /\ ~campaign'.isActive

TotalRaisedZeroedAtSweep ==
    IF SweepStep THEN totalRaised' = 0 ELSE totalRaised' >= totalRaised

TotalRaisedKept ==
    /\ totalRaised' >= totalRaised
    /\ SweepStep => (totalRaised' = totalRaised /\ balance' = 0)

\* C21 as stated: totalRaised never decreases except in the successful
\* endCampaign step, where it drops to zero.
C21_ZeroedAtEnd == [][TotalRaisedZeroedAtSweep]_vars

\* C21 amended: totalRaised never decreases in any step; the successful
\* endCampaign empties the held balance and leaves totalRaised as it is.
C21_NeverDecreases == [][TotalRaisedKept]_vars

C21_Witness ==
    /\ Ended
    /\ lastCall = [op |-> "endCampaign", error |-> "ok"]
    /\ totalRaised > 0
    /\ balance = 0

\* C22: a contribute call that passes the lifecycle and value checks but whose
\* input proof does not validate for the caller is rejected and leaves the
\* ledger, totalRaised, the balance, the grants and the event log as they were.
C22_ProofFailureAborts ==
    \A sender \in Addr, ct \in Ciphertexts, value \in Values :
        (/\ campaign.isActive
         /\ now < campaign.endTimestamp
         /\ value > 0
         /\ ~proofValid(ct, sender))
        => LET r == contribute(St, sender, ct, value, now)
           IN  /\ r.error = "InvalidInputProof"
               /\ r.state = St

C22_Witness ==
    /\ lastCall = [op |-> "contribute", error |-> "InvalidInputProof"]
    /\ campaign.isActive
    /\ now < campaign.endTimestamp
    /\ Len(ingested) > 0

\* C23: the read accessors are functions of the state alone and are defined in
\* every state; before creation they return the defaults: empty name, 0, 0,
\* null fundraiser, inactive, totalRaised 0, and zero handles.
C23_ReadDefaults ==
    /\ getCampaignInfo(St) = <<campaign.name, campaign.targetAmount, campaign.endTimestamp,
                               campaign.fundraiser, campaign.isActive, totalRaised>>
    /\ getEncryptedTotals(St) = <<encryptedTotalRaised, encryptedTotalPoints>>
    /\ \A user \in Addr :
        /\ getEncryptedContribution(St, user) = encryptedContributions[user]
        /\ getEncryptedPoints(St, user) = encryptedPoints[user]
    /\ ~Created =>
        /\ getCampaignInfo(St) = <<"", 0, 0, NullAddr, FALSE, 0>>
        /\ getEncryptedTotals(St) = <<ZeroHandle, ZeroHandle>>
        /\ \A user \in Addr :
            /\ getEncryptedContribution(St, user) = ZeroHandle
            /\ getEncryptedPoints(St, user) = ZeroHandle

C23_Witness ==
    /\ ~Created
    /\ lastCall.op \in {"contribute", "endCampaign", "createCampaign"}
    /\ lastCall.error /= "ok"
    /\ getCampaignInfo(St)[4] = NullAddr

\* the amounts of the logged ContributionReceived events
RECURSIVE SumReceived(_)
SumReceived(log) ==
    IF log = <<>> THEN 0
    ELSE (IF log[1].event = "ContributionReceived" THEN log[1].amount ELSE 0)
         + SumReceived(Tail(log))

\* C24: an accepted contribute by c with value v adds v to the held balance and
\* to totalRaised, replaces c's two entries and both totals, and appends exactly
\* one ContributionReceived(c, v), all in the one step; the logged
\* ContributionReceived amounts always sum to totalRaised.
C24_ContributionAtomic ==
    /\ SumReceived(events) = totalRaised
    /\ \A sender \in Addr, ct \in Ciphertexts, value \in Values :
        LET r == contribute(St, sender, ct, value, now)
        IN  r.error = "ok" =>
            /\ r.state.balance = balance + value
            /\ r.state.totalRaised = totalRaised + value
            /\ r.state.encryptedContributions[sender] /= encryptedContributions[sender]
            /\ r.state.encryptedPoints[sender] /= encryptedPoints[sender]
            /\ r.state.encryptedTotalRaised /= encryptedTotalRaised
            /\ r.state.encryptedTotalPoints /= encryptedTotalPoints
            /\ r.state.events =
                   Append(events, [event |-> "ContributionReceived", name |-> "",
                                   who |-> sender, amount |-> value, at |-> 0])

C24_Witness ==
    /\ lastCall = [op |-> "contribute", error |-> "ok"]
    /\ CountEvents("ContributionReceived") = 2
    /\ SumReceived(events) > 0

\* C25: the plaintext of each contributor's encryptedContribution entry is the
\* sum of all amounts ingested from that contributor's accepted contributions.
C25_EntryIsSumOfAmounts ==
    \A c \in Addr : encryptedContributions[c].pt = SumAmounts(ingested, c)

\* C26: no accepted contribution lowers the plaintext of an entry or of a
\* total, no accumulator holds a sum reduced modulo the width of the type, and
\* a contribution that would push an accumulator past that width is rejected.
C26_NoWrapAround ==
    \A sender \in Addr, ct \in Ciphertexts, value \in Values :
        LET r == contribute(St, sender, ct, value, now)
            q == ct.pt \div POINTS_DIVISOR
        IN  /\ r.error = "ok" =>
                /\ r.state.encryptedContributions[sender].pt
                       >= encryptedContributions[sender].pt
                /\ r.state.encryptedPoints[sender].pt >= encryptedPoints[sender].pt
                /\ r.state.encryptedTotalRaised.pt >= encryptedTotalRaised.pt
                /\ r.state.encryptedTotalPoints.pt >= encryptedTotalPoints.pt
                /\ r.state.encryptedTotalRaised.pt = encryptedTotalRaised.pt + ct.pt
                /\ r.state.encryptedTotalPoints.pt = encryptedTotalPoints.pt + q
            /\ (\/ encryptedContributions[sender].pt + ct.pt >= Modulus
                \/ encryptedTotalRaised.pt + ct.pt >= Modulus
                \/ encryptedPoints[sender].pt + q >= Modulus
                \/ encryptedTotalPoints.pt + q >= Modulus)
               => r.error /= "ok"

EventKinds == {"CampaignCreated", "ContributionReceived", "CampaignEnded"}

\* CampaignCreated, then ContributionReceived any number of times, then at
\* most one CampaignEnded
WellOrdered(log) ==
    \A i \in 1 .. Len(log) :
        /\ log[i].event \in EventKinds
        /\ (log[i].event = "CampaignCreated") = (i = 1)
        /\ log[i].event = "CampaignEnded" => i = Len(log)

EventsAppendOnly ==
    \/ events' = events
    \/ /\ Len(events') = Len(events) + 1
       /\ SubSeq(events', 1, Len(events)) = events

\* C27: the event log only grows, by appending, and always reads
\* CampaignCreated, ContributionReceived*, then at most one CampaignEnded.
C27_EventOrdering ==
    /\ [][EventsAppendOnly]_vars
    /\ [](WellOrdered(events))

C27_Witness ==
    /\ Len(events) = 4
    /\ events[1].event = "CampaignCreated"
    /\ events[2].event = "ContributionReceived"
    /\ events[3].event = "ContributionReceived"
    /\ events[4].event = "CampaignEnded"
    /\ lastCall.error /= "ok"

Ledger ==
    <<encryptedContributions, encryptedPoints,
      encryptedTotalRaised, encryptedTotalPoints>>

Config == <<campaign.name, campaign.targetAmount, campaign.endTimestamp,
            campaign.fundraiser>>

LedgerAndConfigFrame ==
    /\ Ledger' /= Ledger =>
          /\ lastCall' = [op |-> "contribute", error |-> "ok"]
          /\ Len(ingested') = Len(ingested) + 1
          /\ campaign.isActive
    /\ campaign.fundraiser /= NullAddr => Config' = Config

\* C28: the four encrypted ledger values change only in an accepted
\* contribute; createCampaign and endCampaign, accepted or rejected, and a
\* rejected contribute leave them as they are, so they keep their contents
\* once the campaign has ended; after creation no call changes name,
\* targetAmount, endTimestamp or fundraiser.
C28_LedgerAndConfigFrame == [][LedgerAndConfigFrame]_vars

C28_Witness ==
    /\ Ended
    /\ encryptedTotalRaised /= ZeroHandle
    /\ \E a \in Addr : encryptedContributions[a] /= ZeroHandle
    /\ lastCall \in {[op |-> "endCampaign", error |-> "ok"],
                     [op |-> "createCampaign", error |-> "CampaignAlreadyCreated"]}

Contributors == {ingested[i].contributor : i \in 1 .. Len(ingested)}

EntriesMatchContributors ==
    \A a \in Addr :
        /\ (getEncryptedContribution(St, a) = ZeroHandle) = (a \notin Contributors)
        /\ (getEncryptedPoints(St, a) = ZeroHandle) = (a \notin Contributors)

EntriesNeverReset ==
    \A a \in Addr :
        /\ encryptedContributions[a] /= ZeroHandle => encryptedContributions'[a] /= ZeroHandle
        /\ encryptedPoints[a] /= ZeroHandle => encryptedPoints'[a] /= ZeroHandle

\* C29: getEncryptedContribution(a) and getEncryptedPoints(a) return the zero
\* handle exactly for the addresses that never made an accepted contribution,
\* and no step turns a non-zero entry back into the zero handle.
C29_EntryExistence ==
    /\ [](EntriesMatchContributors)
    /\ [][EntriesNeverReset]_vars

C29_Witness ==
    /\ \E a, b \in Addr :
        /\ a /= campaign.fundraiser
        /\ getEncryptedContribution(St, a) /= ZeroHandle
        /\ getEncryptedPoints(St, a) /= ZeroHandle
        /\ getEncryptedContribution(St, b) = ZeroHandle
    /\ Ended

\* C30: the outcome of a contribute call does not depend on targetAmount; in
\* an Active campaign before its end timestamp a contribution is accepted also
\* when totalRaised has reached or passed targetAmount.
C30_TargetNotEnforced ==
    \A sender \in Addr, ct \in Ciphertexts, value \in Values :
        /\ \A targetAmount \in {0, totalRaised, totalRaised + 1} :
            contributeError([St EXCEPT !.campaign.targetAmount = targetAmount],
                            sender, ct, value, now)
              = contributeError(St, sender, ct, value, now)
        /\ (/\ campaign.isActive
            /\ now < campaign.endTimestamp
            /\ totalRaised >= campaign.targetAmount
            /\ value > 0
            /\ proofValid(ct, sender))
           => LET r == contribute(St, sender, ct, value, now)
              IN  /\ r.error = "ok"
                  /\ r.state.totalRaised > campaign.targetAmount

\* a contribution accepted with the target already met
C30_Witness ==
    /\ lastCall = [op |-> "contribute", error |-> "ok"]
    /\ Len(ingested) > 0
    /\ totalRaised - ingested[Len(ingested)].value >= campaign.targetAmount
    /\ totalRaised > campaign.targetAmount

\* C31: reaching endTimestamp does not end the campaign: until an endCampaign
\* succeeds isActive stays true and the contributed value stays held; while the
\* campaign is Active at or after endTimestamp every contribute fails with
\* CampaignAlreadyEnded; no call but the fundraiser's endCampaign clears
\* isActive.
C31_DeadlineDoesNotEnd ==
    /\ (Created /\ ~Ended) =>
          /\ campaign.isActive
          /\ balance = SumValues(ingested)
    /\ (campaign.isActive /\ now >= campaign.endTimestamp) =>
          \A sender \in Addr, ct \in Ciphertexts, value \in Values :
              LET r == contribute(St, sender, ct, value, now)
              IN  /\ r.error = "CampaignAlreadyEnded"
                  /\ r.state = St
    /\ campaign.isActive =>
          /\ \A sender \in Addr, ct \in Ciphertexts, value \in Values :
                contribute(St, sender, ct, value, now).state.campaign.isActive
          /\ \A sender \in Addr, cfg \in CampaignConfigs :
                createCampaign(St, sender, cfg.name, cfg.targetAmount,
                               cfg.endTimestamp, now).state.campaign.isActive
          /\ \A sender \in Addr, success \in BOOLEAN :
                ~endCampaign(St, sender, success, now).state.campaign.isActive
                   => sender = campaign.fundraiser

\* a contribution refused at the end timestamp itself, the campaign still
\* Active and holding value
C31_Witness ==
    /\ campaign.isActive
    /\ now = campaign.endTimestamp
    /\ balance > 0
    /\ lastCall = [op |-> "contribute", error |-> "CampaignAlreadyEnded"]

\* the error a call back into the contract meets during the transfer
ReentryError(call) ==
    IF call.fn = "createCampaign" THEN {"CampaignAlreadyCreated"}
    ELSE IF call.fn = "contribute" THEN {"CampaignInactive"}
    ELSE {"CampaignInactive", "Unauthorized"}

\* C32: while endCampaign is transferring the balance, every call back into
\* endCampaign, contribute or createCampaign fails and changes nothing, so the
\* sweep with a callback ends exactly as the sweep without one: the balance
\* is sent once and no contribution is accepted in its middle.
C32_NoReentrantEffect ==
    campaign.isActive =>
        /\ \A call \in ReentrantCalls :
            LET r == Reenter(endCampaignSweep(St), call, now)
            IN  /\ r.error \in ReentryError(call)
                /\ r.state = endCampaignSweep(St)
        /\ \A call \in CallbackCalls(campaign.fundraiser), success \in BOOLEAN :
            LET r == endCampaignReentered(St, campaign.fundraiser, success, now, call)
            IN  /\ r = endCampaignReentered(St, campaign.fundraiser, success, now, NoCall)
                /\ r.state.ingested = ingested
                /\ r.error = "ok" =>
                      /\ r.state.balance = 0
                      /\ r.state.events =
                            Append(events, [event |-> "CampaignEnded", name |-> "",
                                            who |-> campaign.fundraiser,
                                            amount |-> balance, at |-> now])

\* a sweep whose callback called back into the contract has completed
C32_Witness ==
    /\ lastCall = [op |-> "endCampaign with callback", error |-> "ok"]
    /\ Ended
    /\ CountEvents("CampaignEnded") = 1
    /\ totalRaised > 0
    /\ balance = 0

\* the grants on the two entries of address d
EntryGrants(d) ==
    {g \in acl : g[1] \in {encryptedContributions[d], encryptedPoints[d]}}

ContributorFrame ==
    Len(ingested') = Len(ingested) + 1 =>
        \A d \in Addr \ {ingested'[Len(ingested')].contributor} :
            /\ encryptedContributions'[d] = encryptedContributions[d]
            /\ encryptedPoints'[d] = encryptedPoints[d]
            /\ EntryGrants(d)' = EntryGrants(d)

\* C33: an accepted contribute by c leaves the two entries of every other
\* address, and the grants on them, unchanged.
C33_ContributorFrame == [][ContributorFrame]_vars

\* a contribution accepted while another address holds entries and grants
C33_Witness ==
    /\ lastCall = [op |-> "contribute", error |-> "ok"]
    /\ Len(ingested) = 2
    /\ ingested[1].contributor /= ingested[2].contributor
    /\ EntryGrants(ingested[1].contributor) /= {}

\* C35: isActive implies a non-null fundraiser, so the fundraiser guard in
\* contribute is true whenever it is reached: every value the two encrypted
\* totals have held carries the fundraiser's grant.
C35_ActiveHasFundraiser ==
    /\ campaign.isActive => campaign.fundraiser /= NullAddr
    /\ Len(ingested) > 0 => campaign.fundraiser /= NullAddr
    /\ \A h \in EverHeld(encryptedTotalRaised) \cup EverHeld(encryptedTotalPoints) :
          <<h, campaign.fundraiser>> \in acl

\* contributions accepted from addresses other than the fundraiser, whose
\* grants on the totals can only come from the guarded branch
C35_Witness ==
    /\ campaign.isActive
    /\ lastCall = [op |-> "contribute", error |-> "ok"]
    /\ Len(ingested) = 2
    /\ \A i \in 1 .. Len(ingested) : ingested[i].contributor /= campaign.fundraiser
    /\ <<encryptedTotalRaised, campaign.fundraiser>> \in acl
    /\ <<encryptedTotalPoints, campaign.fundraiser>> \in acl

\* a step that ends the campaign or lowers the held balance is the
\* fundraiser's endCampaign with its transfer accepted; the same call with the
\* transfer rejected changes nothing
FundsLeaveOnlyBySweep ==
    (balance' < balance \/ (campaign.isActive /\ ~campaign'.isActive)) =>
        /\ lastCall'.op \in {"endCampaign", "endCampaign with callback"}
        /\ lastCall'.error = "ok"
        /\ campaign' = endCampaign(St, campaign.fundraiser, TRUE, now).state.campaign
        /\ balance' = 0
        /\ endCampaign(St, campaign.fundraiser, FALSE, now).state = St
        /\ endCampaign(St, campaign.fundraiser, FALSE, now).error = "WithdrawalFailed"

\* C34: an Active campaign whose fundraiser keeps attempting endCampaign from
\* an address that accepts the transfer eventually is Ended with nothing held;
\* a rejected transfer leaves the campaign Active and the balance held, and no
\* other step ends the campaign or moves value out.
C34_SettlementLiveness ==
    /\ campaign.isActive ~> (~campaign.isActive /\ balance = 0)
    /\ [][FundsLeaveOnlyBySweep]_vars

\* a campaign that held value, settled at or after its end timestamp
C34_Witness ==
    /\ Created
    /\ ~campaign.isActive
    /\ balance = 0
    /\ SumValues(ingested) > 0
    /\ now >= campaign.endTimestamp
    /\ lastCall.op \in {"endCampaign", "endCampaign with callback"}

Init ==
    /\ campaign = InitState.campaign
    /\ totalRaised = InitState.totalRaised
    /\ balance = InitState.balance
    /\ encryptedTotalRaised = InitState.encryptedTotalRaised
    /\ encryptedTotalPoints = InitState.encryptedTotalPoints
    /\ encryptedContributions = InitState.encryptedContributions
    /\ encryptedPoints = InitState.encryptedPoints
    /\ acl = InitState.acl
    /\ events = InitState.events
    /\ ingested = InitState.ingested
    /\ now = 1
    /\ lastCall = [op |-> "deploy", error |-> "ok"]

Next ==
    \/ CreateCampaign
    \/ Contribute
    \/ EndCampaign
    \/ EndCampaignReentered
    \/ Tick

Spec == Init /\ [][Next]_vars

\* the fundraiser's own endCampaign, its address accepting the transfer
FundraiserEnds ==
    /\ campaign.isActive
    /\ Commit(endCampaign(St, campaign.fundraiser, TRUE, now), "endCampaign")
    /\ UNCHANGED now

\* the fundraiser keeps attempting endCampaign from an accepting address
FairSpec == Spec /\ WF_vars(FundraiserEnds)
====
